---- MODULE Spec2Model ----
(***************************************************************************)
(* Model of the market maker of src/src/mm/bot.py: the control loop        *)
(* MarketMaker.run, its risk decisions, _cancel_all_orders, _place_quotes  *)
(* and _close_position, against a venue that answers each request of       *)
(* src/src/mm/client.py with a result or an exception.                     *)
(*                                                                         *)
(* Units.  The state holds decimal numbers as integers: a price is a       *)
(* number of cents (1 / PriceScale, the default price tick of              *)
(* _load_market_info), a quantity a number of ten-thousandths              *)
(* (1 / QtyScale, a tenth of the default base tick).  The code computes    *)
(* with floats: every operator below that models a computation of the code *)
(* converts its arguments to doubles, computes as the code does, and       *)
(* returns the decimal the code's result prints as.  An Optional[float]    *)
(* field is a set: {} is None and {p} holds p.                             *)
(***************************************************************************)
EXTENDS Integers, Sequences, FiniteSets, TLC

(***************************************************************************)
(* Bounds of the model.                                                    *)
(***************************************************************************)
\* The venue keeps at most MaxOrders live orders of the account: a create
\* request beyond that is refused (it fails like any other failing create).
MaxOrders == 2

\* Inputs the venue can report.  Marks: 0.00 (makes mid_price 0 in
\* _place_quotes), 2000.00, and 2010.00 (outside the requote band of quotes
\* made at 2000.00).
Marks == {0, 200000, 201000}

\* Positions (position_qty, average_open_price): flat, a short of 0.025 (in
\* loss at 2000 and 2010, in profit at 0), and a long of 0.3005 above the
\* inventory stop (in loss at 2000, in profit at 2010).
Positions ==
  { [qty |-> 0,    avg |-> 0],
    [qty |-> -250, avg |-> 199500],
    [qty |-> 3005, avg |-> 200500] }

(***************************************************************************)
(* Program constants.                                                      *)
(***************************************************************************)
\* config.py: SPREAD_BPS and ORDER_SIZE_USD defaults.
spread_bps == 10
order_size_usd == 50
\* Model units per USD of price and per unit of quantity.
PriceScale == 100
QtyScale == 10000
\* bot.py _load_market_info: default ticks 0.01 and 0.001, in model units.
DefaultPriceTick == 1
DefaultQtyTick == 10
\* bot.py _should_stop_quoting.
COLLATERAL_USD == 100
MAX_LEVERAGE == 8
REFERENCE_ETH_PRICE == 2000
\* STOP_THRESHOLD = 0.6, in percent.
STOP_THRESHOLD_PCT == 60
\* bot.py _should_take_profit: 0.08 USD and 0.5 %, as cents and per mille.
TAKE_PROFIT_CENTS == 8
FAVORABLE_MOVE_PERMILLE == 5
\* bot.py _place_quotes: PROFIT_TARGET = 0.05 USD, in cents.
PROFIT_TARGET_CENTS == 5
\* bot.py: the quantity epsilon 0.0001, as ten-thousandths.
QTY_EPS_E4 == 1
\* bot.py _should_update_quotes: 0.6 of the spread width, in tenths.
MOVE_THRESHOLD_TENTHS == 6
\* bot.py _place_quotes: the divisor of the basis points.
BPS_DENOM == 10000
\* bot.py _close_position: 0.999 and 1.001, in thousandths.
CLOSE_SELL_PERMILLE == 999
CLOSE_BUY_PERMILLE == 1001

(***************************************************************************)
(* Binary floating point.  The code computes with Python floats (IEEE 754  *)
(* binary64, round to nearest, ties to even).  A natural number below      *)
(* Limb^9 is the tuple of its nine digits in base Limb, lowest first; a    *)
(* finite double is [sign, man, exp], the value sign * man * 2^exp with    *)
(* man of exactly MantBits bits, or Zero.  The values of the model stay    *)
(* far from overflow and from the subnormals.                              *)
(***************************************************************************)
Limb == 16384
LimbBits == 14
MantBits == 53
Pow2(n) == 2 ^ n

Abs(x) == IF x < 0 THEN -x ELSE x
Sign(x) == IF x < 0 THEN -1 ELSE IF x = 0 THEN 0 ELSE 1
Min(x, y) == IF x < y THEN x ELSE y

\* The value of F for the value of v, which is computed once.
Strict(v, F(_)) == CHOOSE res \in { F(x) : x \in {v} } : TRUE

\* The tuple of the nine digits f[1], ..., f[9].
Digits == 1..9
Tup(f) == SubSeq(f, 1, 9)
At(a, i) == IF i \in Digits THEN a[i] ELSE 0
BigZero == << 0, 0, 0, 0, 0, 0, 0, 0, 0 >>

\* An integer 0 <= n < 2^31 as a natural number, and back.
Big(n) == << n % Limb, (n \div Limb) % Limb, n \div (Limb * Limb), 0, 0, 0, 0, 0, 0 >>
Small(a) == a[1] + Limb * a[2] + Limb * Limb * a[3]

\* The number with the digits x[i] < 2^31 written in proper digits: three
\* passes leave every digit at most Limb, and a digit then receives a carry
\* iff a digit Limb below it is followed by digits Limb - 1 only.
CarryPass(x) == Tup([i \in Digits |-> (x[i] % Limb) + (At(x, i - 1) \div Limb)])
Carried(y, i) ==
  \E j \in 1..(i - 1) : y[j] = Limb /\ \A k \in (j + 1)..(i - 1) : y[k] = Limb - 1
Carry(y) == Tup([i \in Digits |-> (y[i] + IF Carried(y, i) THEN 1 ELSE 0) % Limb])
Norm(x) == Carry(CarryPass(CarryPass(CarryPass(x))))

BigAdd(a, b) == Norm([i \in Digits |-> a[i] + b[i]])

\* a - b for a >= b: a digit lends iff a negative difference below it is
\* followed by zero differences only.
Lent(a, b, i) ==
  \E j \in 1..(i - 1) :
     a[j] < b[j] /\ \A k \in (j + 1)..(i - 1) : a[k] = b[k]
BigSub(a, b) ==
  Tup([i \in Digits |-> (a[i] - b[i] - IF Lent(a, b, i) THEN 1 ELSE 0) % Limb])

\* -1, 0 or 1 as a < b, a = b or a > b: the highest digit that differs
\* decides.
Differ(a, b) == { i \in Digits : a[i] # b[i] }
Highest(D) == CHOOSE i \in D : \A j \in D : j <= i
CmpAt(a, b, D) ==
  IF D = {} THEN 0 ELSE IF a[Highest(D)] < b[Highest(D)] THEN -1 ELSE 1
BigCmp(a, b) == CmpAt(a, b, Differ(a, b))

\* a * k for 0 <= k < 2^17, and a * b for a, b < Limb^4.
BigMulSmall(a, k) == Norm([i \in Digits |-> a[i] * k])
BigMul(a, b) ==
  Norm([i \in Digits |-> a[1] * At(b, i) + a[2] * At(b, i - 1)
                           + a[3] * At(b, i - 2) + a[4] * At(b, i - 3)])

\* a * 2^n and a \div 2^n.
ShlLimbs(a, n) == Tup([i \in Digits |-> At(a, i - n)])
ShrLimbs(a, n) == Tup([i \in Digits |-> At(a, i + n)])
ShlBits(a, s) ==
  Tup([i \in Digits |-> ((a[i] % Pow2(LimbBits - s)) * Pow2(s))
                          + (At(a, i - 1) \div Pow2(LimbBits - s))])
ShrBits(a, s) ==
  Tup([i \in Digits |-> (a[i] \div Pow2(s))
                          + ((At(a, i + 1) % Pow2(s)) * Pow2(LimbBits - s))])
BigShl(a, n) == ShlBits(ShlLimbs(a, n \div LimbBits), n % LimbBits)
BigShr(a, n) == ShrBits(ShrLimbs(a, n \div LimbBits), n % LimbBits)

\* The number of bits of a digit and of a number.
Bits(n) == IF n = 0 THEN 0 ELSE CHOOSE k \in 1..LimbBits : Pow2(k - 1) <= n /\ n < Pow2(k)
TopDigit(a, D) == IF D = {} THEN 0 ELSE (Highest(D) - 1) * LimbBits + Bits(a[Highest(D)])
BitLen(a) == TopDigit(a, { i \in Digits : a[i] # 0 })

\* Quotient and remainder of a by 0 < k <= 2^16, digit by digit from the
\* top: RemAbove is the remainder that the digits above i leave.
RECURSIVE RemAbove(_, _, _)
RemAbove(a, k, i) ==
  IF i > 9 THEN 0 ELSE ((RemAbove(a, k, i + 1) * Limb) + a[i]) % k
BigDivSmall(a, k) ==
  [q |-> Tup([i \in Digits |-> ((RemAbove(a, k, i + 1) * Limb) + a[i]) \div k]),
   r |-> RemAbove(a, k, 1)]

\* The digit j of the quotient of r by b, for r < b * Limb^j and b of four
\* digits with the top one at least Limb / 2: the estimate from the two top
\* digits is at most 2 too large.
Fits(r, b, j, q) == BigCmp(ShlLimbs(BigMulSmall(b, q), j - 1), r) <= 0
DigitFrom(r, b, j, qh) ==
  IF Fits(r, b, j, qh) THEN qh ELSE IF Fits(r, b, j, qh - 1) THEN qh - 1 ELSE qh - 2
DivOut(r, b, j, q) == [q |-> q, r |-> BigSub(r, ShlLimbs(BigMulSmall(b, q), j - 1))]
DivDigit(r, b, j) ==
  DivOut(r, b, j,
         DigitFrom(r, b, j, Min(Limb - 1, (At(r, j + 4) * Limb + r[j + 3]) \div b[4])))

\* Quotient and remainder of a < b * Limb^j by such a b, the digits of the
\* quotient from the top; BigDivMod for a < Limb^8.
RECURSIVE DivFrom(_, _, _)
DivFrom(a, b, j) ==
  IF j = 0 THEN [q |-> BigZero, r |-> a]
  ELSE Strict(DivDigit(a, b, j), LAMBDA d :
       Strict(DivFrom(d.r, b, j - 1), LAMBDA t :
         [q |-> [t.q EXCEPT ![j] = d.q], r |-> t.r]))
BigDivMod(a, b) == DivFrom(a, b, 5)

Zero == [sign |-> 0, man |-> BigZero, exp |-> 0]

\* The double nearest to s * x * 2^e, ties to even, where x is n, or lies
\* strictly between n and n + 1 when sticky (n then has more than MantBits
\* bits): hi is n without its len - MantBits low bits, c compares these
\* with half a unit of hi.
RoundBig(s, n, sticky, e) ==
  Strict(BitLen(n), LAMBDA len :
    IF len = 0 THEN Zero
    ELSE IF len <= MantBits
      THEN [sign |-> s, man |-> BigShl(n, MantBits - len), exp |-> e + len - MantBits]
    ELSE
      Strict(BigShr(n, len - MantBits), LAMBDA hi :
      Strict(BigCmp(BigSub(n, BigShl(hi, len - MantBits)),
                    BigShl(Big(1), len - MantBits - 1)), LAMBDA c :
      Strict(IF c > 0 \/ (c = 0 /\ (sticky \/ hi[1] % 2 = 1))
               THEN BigAdd(hi, Big(1)) ELSE hi, LAMBDA m :
        IF BitLen(m) > MantBits
          THEN [sign |-> s, man |-> BigShr(m, 1), exp |-> e + len - MantBits + 1]
          ELSE [sign |-> s, man |-> m, exp |-> e + len - MantBits]))))

\* float(n), and float("n/den") for a decimal literal or a number of the
\* venue's JSON with the decimal value n / den, den a power of ten up to
\* 10^5 (divided in two steps when above 2^16).
FromInt(n) == RoundBig(Sign(n), Big(Abs(n)), FALSE, 0)
FromDec(n, den) ==
  IF n = 0 THEN Zero
  ELSE
    Strict(MantBits + 4 + Bits(den \div 8), LAMBDA k :
    Strict(BigDivSmall(BigShl(Big(Abs(n)), k),
                       IF den > 10000 THEN 1000 ELSE den), LAMBDA d1 :
    Strict(BigDivSmall(d1.q, IF den > 10000 THEN den \div 1000 ELSE 1), LAMBDA d2 :
      RoundBig(Sign(n), d2.q, d1.r # 0 \/ d2.r # 0, -k))))

FNeg(x) == [x EXCEPT !.sign = -@]
FAbs(x) == [x EXCEPT !.sign = Abs(@)]

\* x * y, x / y (y # 0), x + y, x - y.
FMul(x, y) ==
  IF x.sign = 0 \/ y.sign = 0 THEN Zero
  ELSE RoundBig(x.sign * y.sign, BigMul(x.man, y.man), FALSE, x.exp + y.exp)
FDiv(x, y) ==
  IF x.sign = 0 \/ y.sign = 0 THEN Zero
  ELSE Strict(BigDivMod(BigShl(x.man, MantBits + 6), BigShl(y.man, 3)), LAMBDA dm :
         RoundBig(x.sign * y.sign, dm.q, dm.r # BigZero,
                  x.exp - y.exp - (MantBits + 3)))
FAdd(x, y) ==
  IF x.sign = 0 THEN y
  ELSE IF y.sign = 0 THEN x
  ELSE IF x.exp - y.exp > MantBits + 3 THEN x
  ELSE IF y.exp - x.exp > MantBits + 3 THEN y
  ELSE
    Strict(Min(x.exp, y.exp), LAMBDA e :
    Strict(BigShl(x.man, x.exp - e), LAMBDA xm :
    Strict(BigShl(y.man, y.exp - e), LAMBDA ym :
    Strict(BigCmp(xm, ym), LAMBDA c :
      RoundBig(IF x.sign = y.sign \/ c > 0 THEN x.sign ELSE y.sign,
               IF x.sign = y.sign THEN BigAdd(xm, ym)
               ELSE IF c > 0 THEN BigSub(xm, ym) ELSE BigSub(ym, xm),
               FALSE, e)))))
FSub(x, y) == FAdd(x, FNeg(y))

\* x < y and x > y.
FLess(x, y) ==
  IF x.sign # y.sign THEN x.sign < y.sign
  ELSE IF x.sign = 0 THEN FALSE
  ELSE IF x.exp # y.exp THEN (x.sign > 0) = (x.exp < y.exp)
  ELSE IF x.sign > 0 THEN BigCmp(x.man, y.man) < 0 ELSE BigCmp(y.man, x.man) < 0
FGreater(x, y) == FLess(y, x)

\* MarketMaker._round(value, tick) for the double value with |value| < 2^52
\* and a tick whose str is the decimal step / den, as an integer number of
\* 1 / den: Decimal(str(value)) is the shortest decimal that reads back as
\* value, so it is a multiple of the tick when a multiple reads back as
\* value and lies on the same side of every multiple as value otherwise;
\* the quotient is rounded toward zero.
Round_Up(value, step, den) ==
  IF value.sign = 0 THEN 0
  ELSE
    Strict(Small(BigDivSmall(BigShr(BigMulSmall(value.man, den), -value.exp), step).q),
           LAMBDA k : value.sign * (k + 1) * step)
Round(value, step, den) ==
  IF value.sign = 0 THEN 0
  ELSE
    Strict(Small(BigDivSmall(BigShr(BigMulSmall(value.man, den), -value.exp), step).q),
           LAMBDA k :
      value.sign * (IF FromDec((k + 1) * step, den) = FAbs(value)
                      THEN (k + 1) * step ELSE k * step))

IsNone(x) == x = {}
Val(x) == CHOOSE v \in x : TRUE

\* The doubles of a price and of a quantity of the state: float() of the
\* venue's number, or the float _round returned.
Price(p) == FromDec(p, PriceScale)
Qty(q) == FromDec(q, QtyScale)

(***************************************************************************)
(* Risk controller: pure decisions of bot.py.                              *)
(***************************************************************************)
\* abs(position_qty) < 0.0001, respectively > 0.0001.
QtyBelowEps(qty) == FLess(FAbs(Qty(qty)), FromDec(QTY_EPS_E4, 10000))
QtyAboveEps(qty) == FGreater(FAbs(Qty(qty)), FromDec(QTY_EPS_E4, 10000))

\* unrealized_pnl = position_qty * (mark_price - avg_entry_price).
Pnl(qty, mark, avg) == FMul(Qty(qty), FSub(Price(mark), Price(avg)))

\* price_move_pct = ((mark_price - avg_entry_price) / avg_entry_price) * 100
\* and its comparisons with 0.5 and -0.5.
price_move_pct(mark, avg) ==
  FMul(FDiv(FSub(Price(mark), Price(avg)), Price(avg)), FromInt(100))
MovePctAbove(mark, avg) ==
  FGreater(price_move_pct(mark, avg), FromDec(FAVORABLE_MOVE_PERMILLE, 10))
MovePctBelow(mark, avg) ==
  FLess(price_move_pct(mark, avg), FromDec(-FAVORABLE_MOVE_PERMILLE, 10))

\* MarketMaker._should_take_profit.
should_take_profit(qty, mark, avg) ==
  IF QtyBelowEps(qty) \/ avg = 0 THEN FALSE
  ELSE IF FGreater(Pnl(qty, mark, avg), FromDec(TAKE_PROFIT_CENTS, 100)) THEN TRUE
  ELSE (qty > 0 /\ MovePctAbove(mark, avg)) \/ (qty < 0 /\ MovePctBelow(mark, avg))

\* MarketMaker._should_stop_quoting: stop_position is
\* COLLATERAL_USD * MAX_LEVERAGE / REFERENCE_ETH_PRICE * STOP_THRESHOLD; mark
\* is the unused parameter mark_price.
stop_position ==
  FMul(FDiv(FMul(FromInt(COLLATERAL_USD), FromInt(MAX_LEVERAGE)),
            FromInt(REFERENCE_ETH_PRICE)),
       FromDec(STOP_THRESHOLD_PCT, 100))
should_stop_quoting_LiveMark(qty, mark) ==
  FGreater(FAbs(Qty(qty)),
           FMul(FDiv(FMul(FromInt(COLLATERAL_USD), FromInt(MAX_LEVERAGE)), Price(mark)),
                FromDec(STOP_THRESHOLD_PCT, 100)))
should_stop_quoting(qty, mark) == FGreater(FAbs(Qty(qty)), stop_position)

\* MarketMaker._should_update_quotes, from the fields it reads.
should_update_quotes(cur_bid, cur_ask, last_qty, qtick, mark, qty) ==
  IF IsNone(cur_bid) \/ IsNone(cur_ask) THEN TRUE
  ELSE IF FGreater(FAbs(FSub(Qty(qty), Qty(last_qty))),
                   FMul(Qty(qtick), FromInt(2))) THEN TRUE
  ELSE Strict(FMul(FSub(Price(Val(cur_ask)), Price(Val(cur_bid))),
                   FromDec(MOVE_THRESHOLD_TENTHS, 10)), LAMBDA price_move_threshold :
         \/ FGreater(Price(mark), FAdd(Price(Val(cur_ask)), price_move_threshold))
         \/ FLess(Price(mark), FSub(Price(Val(cur_bid)), price_move_threshold)))

(***************************************************************************)
(* Quote engine: the prices and sizes _place_quotes computes before it     *)
(* sends anything (bot.py lines 238-289).                                  *)
(***************************************************************************)
\* self._round(mark_price * (1 - bps / 10000), self.price_tick) and the
\* same with +.
BidAt(mark, bps, ptick) ==
  Round(FMul(Price(mark), FSub(FromInt(1), FDiv(FromInt(bps), FromInt(BPS_DENOM)))),
        ptick, PriceScale)
AskAt(mark, bps, ptick) ==
  Round(FMul(Price(mark), FAdd(FromInt(1), FDiv(FromInt(bps), FromInt(BPS_DENOM)))),
        ptick, PriceScale)

\* self._round(self.cfg.order_size_usd / mid_price, self.qty_tick) with
\* mid_price = (bid_price + ask_price) / 2.
BaseQuantity(bid, ask, qtick) ==
  Round(FDiv(FromInt(order_size_usd),
             FDiv(FAdd(Price(bid), Price(ask)), FromInt(2))),
        qtick, QtyScale)

\* price_offset = PROFIT_TARGET / abs(position_qty) and
\* self._round(avg_entry_price -/+ price_offset, self.price_tick).
price_offset_PerUnit(qty) == FromDec(PROFIT_TARGET_CENTS, 100)
price_offset(qty) == FDiv(FromDec(PROFIT_TARGET_CENTS, 100), FAbs(Qty(qty)))
ProtectedBid(qty, avg, ptick) ==
  Round(FSub(Price(avg), price_offset(qty)), ptick, PriceScale)
ProtectedAsk(qty, avg, ptick) ==
  Round(FAdd(Price(avg), price_offset(qty)), ptick, PriceScale)

\* self._round(abs(position_qty), self.qty_tick).
WholePosition(qty, qtick) == Round(FAbs(Qty(qty)), qtick, QtyScale)

\* The computation raises (ZeroDivisionError, decimal.DivisionByZero) when a
\* tick is 0 or when mid_price is 0; nothing catches it inside _place_quotes.
QuotesRaise(mark, ptick, qtick) ==
  \/ ptick = 0
  \/ qtick = 0
  \/ BidAt(mark, spread_bps, ptick) + AskAt(mark, spread_bps, ptick) = 0

Protects_EntryUnknown(mark, qty, avg, ptick) ==
  LET unrealized_pnl == IF QtyAboveEps(qty) THEN Pnl(qty, mark, avg) ELSE Zero
  IN IF FLess(unrealized_pnl, Zero) /\ QtyAboveEps(qty)
       THEN IF qty < 0
              THEN IF FGreater(Price(BidAt(mark, spread_bps, ptick)), Price(avg))
                     THEN "bid" ELSE "none"
              ELSE IF qty > 0 /\ FLess(Price(AskAt(mark, spread_bps, ptick)), Price(avg))
                     THEN "ask" ELSE "none"
       ELSE "none"

\* Lines 259-289: which side loss protection adjusts, "bid" for a short,
\* "ask" for a long, "none" when it leaves the base quotes.
Protects(mark, qty, avg, ptick) ==
  LET unrealized_pnl ==
        IF QtyAboveEps(qty) /\ avg > 0 THEN Pnl(qty, mark, avg) ELSE Zero
  IN IF FLess(unrealized_pnl, Zero) /\ QtyAboveEps(qty)
       THEN IF qty < 0
              THEN IF FGreater(Price(BidAt(mark, spread_bps, ptick)), Price(avg))
                     THEN "bid" ELSE "none"
              ELSE IF qty > 0 /\ FLess(Price(AskAt(mark, spread_bps, ptick)), Price(avg))
                     THEN "ask" ELSE "none"
       ELSE "none"

\* The quotes of _place_quotes: [bid_price, bid_quantity, ask_price,
\* ask_quantity], defined when QuotesRaise is false.
Quotes(mark, qty, avg, ptick, qtick) ==
  Strict(BidAt(mark, spread_bps, ptick), LAMBDA bid0 :
  Strict(AskAt(mark, spread_bps, ptick), LAMBDA ask0 :
  Strict(BaseQuantity(bid0, ask0, qtick), LAMBDA qty0 :
  Strict(Protects(mark, qty, avg, ptick), LAMBDA side :
    IF side = "bid"
      THEN [bid_price    |-> ProtectedBid(qty, avg, ptick),
            bid_quantity |-> WholePosition(qty, qtick),
            ask_price    |-> AskAt(mark, spread_bps * 2, ptick),
            ask_quantity |-> qty0]
    ELSE IF side = "ask"
      THEN [bid_price    |-> BidAt(mark, spread_bps * 2, ptick),
            bid_quantity |-> qty0,
            ask_price    |-> ProtectedAsk(qty, avg, ptick),
            ask_quantity |-> WholePosition(qty, qtick)]
    ELSE [bid_price |-> bid0, bid_quantity |-> qty0,
          ask_price |-> ask0, ask_quantity |-> qty0]))))

\* _close_position: the side, the price and the quantity of the closing
\* order: mark_price * 0.999 for a SELL and mark_price * 1.001 for a BUY,
\* rounded, and abs(position_qty) as it is.
CloseSide(qty) == IF qty > 0 THEN "SELL" ELSE "BUY"
ClosePrice(qty, mark, ptick) ==
  Round(FMul(Price(mark),
             FromDec(IF qty > 0 THEN CLOSE_SELL_PERMILLE ELSE CLOSE_BUY_PERMILLE, 1000)),
        ptick, PriceScale)
CloseQuantity(qty) == Abs(qty)

(***************************************************************************)
(* State.                                                                  *)
(***************************************************************************)
VARIABLES
  pc,                 \* the position of run() (and of the coroutine it awaits)
  price_tick,         \* self.price_tick
  qty_tick,           \* self.qty_tick
  dry_run,            \* self.cfg.dry_run
  current_bid_price,  \* self.current_bid_price
  current_ask_price,  \* self.current_ask_price
  last_position_qty,  \* self.last_position_qty
  mark_price,         \* run(): mark_price
  position_qty,       \* run(): position_qty
  avg_entry_price,    \* run(): avg_entry_price
  caller,             \* which call of _cancel_all_orders is running
  in_flight,          \* order ids whose cancel request has no answer yet
  results,            \* the gathered answers of the current cancel round
  cancel_success,     \* the value _cancel_all_orders returned
  quotes,             \* _place_quotes: the prices and sizes it sends
  bid_result,         \* _place_quotes: the answer to the bid's create_order
  ask_result,         \* _place_quotes: the answer to the ask's create_order
  sleep_kind,         \* which asyncio.sleep ends the tick
  book,               \* the venue's live orders of the account
  tick,               \* history of the current tick
  call,               \* history of the current call of _cancel_all_orders
  cancel_all_task     \* main.py: the task shutdown_handler creates

vars ==
  << pc, price_tick, qty_tick, dry_run, current_bid_price, current_ask_price,
     last_position_qty, mark_price, position_qty, avg_entry_price, caller,
     in_flight, results, cancel_success, quotes, bid_result, ask_result,
     sleep_kind, book, tick, call, cancel_all_task >>

\* The fields of the engine that outlive a tick.
engine_fields == << current_bid_price, current_ask_price, last_position_qty >>
\* The locals of run(), of _cancel_all_orders and of _place_quotes.
run_locals == << mark_price, position_qty, avg_entry_price, caller, cancel_success >>
cancel_locals == << in_flight, results >>
place_locals == << quotes, bid_result, ask_result >>
config == << price_tick, qty_tick, dry_run >>

\* The requests a tick counts (those of _cancel_all_orders are counted in
\* call).
RequestKinds ==
  { "mark", "position", "create_bid", "create_ask", "create_close" }

NoQuotes ==
  [bid_price |-> 0, bid_quantity |-> 0, ask_price |-> 0, ask_quantity |-> 0]

\* The history of a tick that has just begun.
NewTick ==
  [ branch        |-> "none",   \* "tp", "stop" or "evaluate" once decided
    needs_requote |-> "none",   \* the value of _should_update_quotes: "yes"/"no"
    cancel_ret    |-> "none",   \* what _cancel_all_orders returned: "ok"/"fail"
    faults        |-> {},       \* the kinds of request that failed
    raised        |-> FALSE,    \* an exception reached the except of run()
    closing       |-> << >>,    \* the closing order passed to create_order
    n             |-> [k \in RequestKinds |-> 0] ]  \* requests sent, by kind

\* The history of a call of _cancel_all_orders that has not begun.
NoCall ==
  [ fetches |-> << >>,   \* the answers of get_open_orders, in order
    round1  |-> {},      \* the answers gathered in the first cancel round
    rounds  |-> 0 ]      \* the cancel rounds started

Init ==
  /\ pc = "load"
  /\ price_tick = 0
  /\ qty_tick = 0
  /\ dry_run \in BOOLEAN
  /\ current_bid_price = {}
  /\ current_ask_price = {}
  /\ last_position_qty = 0
  /\ mark_price = 0
  /\ position_qty = 0
  /\ avg_entry_price = 0
  /\ caller = "none"
  /\ in_flight = {}
  /\ results = << >>
  /\ cancel_success = FALSE
  /\ quotes = NoQuotes
  /\ bid_result = "none"
  /\ ask_result = "none"
  /\ sleep_kind = "none"
  /\ book = {}
  /\ tick = NewTick
  /\ call = NoCall
  /\ cancel_all_task = "none"

(***************************************************************************)
(* The venue.                                                              *)
(***************************************************************************)
Ids(orders) == { o.id : o \in orders }

\* OrderlyClient.get_open_orders: the rows whose status is not one of
\* FILLED, CANCELLED, REJECTED, PARTIAL_FILLED.  The book holds only the
\* orders that can still execute, so the first three never occur in it.
HiddenStatuses == { "FILLED", "CANCELLED", "REJECTED", "PARTIAL_FILLED" }
get_open_orders(b) == { o \in b : o.status \notin HiddenStatuses }

\* The id the venue gives the next order: the least one not in use.
FreshId(b) ==
  CHOOSE i \in 1..(MaxOrders + 1) :
    i \notin Ids(b) /\ \A j \in 1..(i - 1) : j \in Ids(b)

\* The venue accepts a create request.
Accept(b, side) == b \cup { [id |-> FreshId(b), side |-> side, status |-> "NEW"] }

Sent(kind) == [tick EXCEPT !.n[kind] = @ + 1]
Failed(t, kind) == [t EXCEPT !.faults = @ \cup {kind}]

(***************************************************************************)
(* run(): start-up and SAMPLE.                                             *)
(***************************************************************************)
\* The locals of a tick are dead once its sleep begins: every one is
\* assigned again before the next tick reads it.
ClearLocals ==
  /\ mark_price' = 0
  /\ position_qty' = 0
  /\ avg_entry_price' = 0
  /\ caller' = "none"
  /\ cancel_success' = FALSE
  /\ in_flight' = {}
  /\ results' = << >>
  /\ quotes' = NoQuotes
  /\ bid_result' = "none"
  /\ ask_result' = "none"
  /\ call' = NoCall

\* The exception leaves run(): the loop is over.
LoopCatch_Propagate(t) ==
  /\ pc' = "exited"
  /\ sleep_kind' = "none"
  /\ tick' = [t EXCEPT !.raised = TRUE]
  /\ ClearLocals

\* The exception is caught but the tick sleeps the refresh interval.
LoopCatch_Refresh(t) ==
  /\ pc' = "sleep"
  /\ sleep_kind' = "refresh"
  /\ tick' = [t EXCEPT !.raised = TRUE]
  /\ ClearLocals

\* run(): except Exception -> logger.exception, asyncio.sleep(5), next
\* iteration of while True.  t is the tick's history so far.
LoopCatch(t) ==
  /\ pc' = "sleep"
  /\ sleep_kind' = "backoff"
  /\ tick' = [t EXCEPT !.raised = TRUE]
  /\ ClearLocals

\* A tick ends in the asyncio.sleep of the given kind.
EndTick(kind, t) ==
  /\ pc' = "sleep"
  /\ sleep_kind' = kind
  /\ tick' = t
  /\ ClearLocals

\* _load_market_info, awaited before the loop: the ticks are set, or the
\* request raises and run() ends before its loop has begun.
LoadMarketInfo ==
  /\ pc = "load"
  /\ \/ /\ price_tick' = DefaultPriceTick
        /\ qty_tick' = DefaultQtyTick
        /\ pc' = "sample"
     \/ /\ pc' = "exited"
        /\ UNCHANGED << price_tick, qty_tick >>
  /\ UNCHANGED << dry_run, engine_fields, run_locals, cancel_locals,
                  place_locals, sleep_kind, book, tick, call >>
  /\ UNCHANGED cancel_all_task

\* The failure is swallowed and the tick goes on with a mark price of 0.
MarkPriceFails_Swallowed ==
  /\ pc' = "position"
  /\ tick' = Failed(Sent("mark"), "mark")
  /\ UNCHANGED << mark_price, position_qty, avg_entry_price, caller,
                  cancel_success, cancel_locals, place_locals, sleep_kind,
                  call >>

\* get_mark_price raises: nothing between the call and the except of run()
\* catches it.
MarkPriceFails == LoopCatch(Failed(Sent("mark"), "mark"))

\* run(): mark_price = await self.client.get_mark_price(...).
GetMarkPrice ==
  /\ pc = "sample"
  /\ \/ \E m \in Marks :
          /\ mark_price' = m
          /\ pc' = "position"
          /\ tick' = Sent("mark")
          /\ UNCHANGED << position_qty, avg_entry_price, caller,
                          cancel_success, cancel_locals, place_locals,
                          sleep_kind, call >>
     \/ MarkPriceFails
  /\ UNCHANGED << config, engine_fields, book >>
  /\ UNCHANGED cancel_all_task

\* The failure yields a position that is not flat.
PositionOnFailure_Stale == [qty |-> 300, avg |-> 200500]

\* _get_position's except branch: return (0.0, 0.0).
PositionOnFailure == [qty |-> 0, avg |-> 0]

\* The inventory stop is tested before the take profit.
Branch_StopFirst(qty, mark, avg) ==
  IF should_stop_quoting(qty, mark) THEN "stop"
  ELSE IF should_take_profit(qty, mark, avg) THEN "tp"
  ELSE "evaluate"

\* The inventory stop is not tested at all.
Branch_NoStop(qty, mark, avg) ==
  IF should_take_profit(qty, mark, avg) THEN "tp" ELSE "evaluate"

\* run(): which of TAKE PROFIT, INVENTORY STOP and quote evaluation the
\* sampled state selects (the two ifs at lines 347 and 354, in that order).
Branch(qty, mark, avg) ==
  IF should_take_profit(qty, mark, avg) THEN "tp"
  ELSE IF should_stop_quoting(qty, mark) THEN "stop"
  ELSE "evaluate"

\* The values the functions above take on the samples of the model, each
\* computed once: for a position and a mark price, the branch of run(),
\* whether _close_position returns at once and the order it sends
\* otherwise, whether the quote computation raises, and the quotes.
SampledPositions == Positions \cup {PositionOnFailure}
PriceTicks == {DefaultPriceTick}
QtyTicks == {DefaultQtyTick}
Sampled ==
  [ p \in SampledPositions, m \in Marks, pt \in PriceTicks, qt \in QtyTicks |->
      Strict(QuotesRaise(m, pt, qt), LAMBDA raises :
        [ branch |-> Branch(p.qty, m, p.avg),
          dust   |-> QtyBelowEps(p.qty),
          close  |-> << CloseSide(p.qty), ClosePrice(p.qty, m, pt),
                        CloseQuantity(p.qty) >>,
          raises |-> raises,
          quotes |-> IF raises THEN NoQuotes
                     ELSE Quotes(m, p.qty, p.avg, pt, qt) ]) ]

\* The values current_bid_price and current_ask_price can hold, and the
\* value of _should_update_quotes for them.
QuotedPrices(t, side) ==
  { {} } \cup { { IF side = "BUY" THEN t[k].quotes.bid_price
                                  ELSE t[k].quotes.ask_price } :
                k \in { d \in DOMAIN t : ~t[d].raises } }
UpdateTable(t) ==
  [ cur_bid \in QuotedPrices(t, "BUY"), cur_ask \in QuotedPrices(t, "SELL"),
    last_qty \in { p.qty : p \in SampledPositions }, qt \in QtyTicks,
    m \in Marks, qty \in { p.qty : p \in SampledPositions } |->
      should_update_quotes(cur_bid, cur_ask, last_qty, qt, m, qty) ]
SampledUpdate == UpdateTable(Sampled)

\* run() from the return of _get_position to its next await: the branch is
\* chosen and, for quote evaluation, _should_update_quotes is called.
Decide(p, t) ==
  \E b \in { Sampled[p, mark_price, price_tick, qty_tick].branch } :
  LET should_update ==
        SampledUpdate[current_bid_price, current_ask_price,
                      last_position_qty, qty_tick, mark_price, p.qty]
      enter(c, t2) ==
        /\ position_qty' = p.qty
        /\ avg_entry_price' = p.avg
        /\ caller' = c
        /\ pc' = "c_fetch1"
        /\ tick' = t2
        /\ UNCHANGED << mark_price, cancel_success, cancel_locals,
                        place_locals, sleep_kind, call >>
  IN IF b # "evaluate"
       THEN enter(b, [t EXCEPT !.branch = b])
       ELSE IF should_update
         THEN enter("quote", [t EXCEPT !.branch = b, !.needs_requote = "yes"])
         ELSE EndTick("refresh", [t EXCEPT !.branch = b, !.needs_requote = "no"])

\* run(): position_qty, avg_entry_price = await self._get_position().
GetPosition ==
  /\ pc = "position"
  /\ \/ \E p \in Positions : Decide(p, Sent("position"))
     \/ Decide(PositionOnFailure, Failed(Sent("position"), "position"))
  /\ UNCHANGED << config, engine_fields, book >>
  /\ UNCHANGED cancel_all_task

(***************************************************************************)
(* _cancel_all_orders (bot.py lines 128-202).                              *)
(***************************************************************************)
\* _cancel_all_orders returns b; c and t are the call's and the tick's
\* history so far.  Its locals are dead.
Return(b, c, t) ==
  /\ cancel_success' = b
  /\ pc' = "c_ret"
  /\ tick' = [t EXCEPT !.cancel_ret = IF b THEN "ok" ELSE "fail"]
  /\ call' = c
  /\ in_flight' = {}
  /\ results' = << >>

\* The call's history after one more get_open_orders answer.
Fetched(answer) == [call EXCEPT !.fetches = Append(@, answer)]

\* except Exception -> return False, for a get_open_orders that raises.
FetchFails == Return(FALSE, Fetched("fault"), Failed(tick, "open_orders"))

\* asyncio.gather over cancel_order for ids: every request is issued.
StartRound(ids, next_pc, c) ==
  /\ in_flight' = ids
  /\ results' = << >>
  /\ pc' = next_pc
  /\ call' = [c EXCEPT !.rounds = @ + 1]
  /\ UNCHANGED << cancel_success, tick >>

\* The loop over results: a result that is no exception, or one whose
\* status is 400, counts as a success.
TreatedAsSuccess_OkOnly(r) == r = "ok"
TreatedAsSuccess(r) == r = "ok" \/ r = "http400"
failed_non_400(res) == { i \in DOMAIN res : ~TreatedAsSuccess(res[i]) }

\* Lines 135-154: the first fetch.  noid are the rows without "order_id".
CancelFetch1 ==
  /\ pc = "c_fetch1"
  /\ \/ FetchFails
     \/ \E noid \in SUBSET get_open_orders(book) :
          LET orders == get_open_orders(book)
              order_ids == Ids(orders \ noid)
          IN IF orders = {}
               THEN Return(TRUE, Fetched("empty"), tick)
               ELSE IF order_ids = {}
                 THEN Return(FALSE, Fetched("orders"), tick)
                 ELSE StartRound(order_ids, "c_round1", Fetched("orders"))
  /\ UNCHANGED << config, engine_fields, mark_price, position_qty,
                  avg_entry_price, caller, place_locals, sleep_kind, book >>
  /\ UNCHANGED cancel_all_task

\* The results list after cancel_order(id) has answered r: the first
\* gather keeps its results, the second one's are dropped (line 189).
Gathered(id, r) == IF pc = "c_round1" THEN results @@ (id :> r) ELSE results

\* The venue answers one cancel_order of the running round.  It cancels the
\* order; or it accepts the request and the order is still open afterwards;
\* or the order is already resolved (HTTP 400); or the request fails otherwise.
CancelRespond ==
  /\ pc \in { "c_round1", "c_round2" }
  /\ \E id \in in_flight :
       /\ in_flight' = in_flight \ {id}
       /\ \/ /\ id \in Ids(book)
             /\ results' = Gathered(id, "ok")
             /\ book' = { o \in book : o.id # id }
             /\ UNCHANGED tick
          \/ /\ id \in Ids(book)
             /\ results' = Gathered(id, "ok")
             /\ UNCHANGED << book, tick >>
          \/ /\ id \notin Ids(book)
             /\ results' = Gathered(id, "http400")
             /\ UNCHANGED << book, tick >>
          \/ /\ results' = Gathered(id, "error")
             /\ tick' = Failed(tick, "cancel")
             /\ UNCHANGED book
  /\ UNCHANGED << pc, config, engine_fields, run_locals, place_locals,
                  sleep_kind, call >>
  /\ UNCHANGED cancel_all_task

CancelJoin1_FirstException ==
  /\ pc = "c_round1"
  /\ in_flight = {} \/ failed_non_400(results) # {}
  /\ LET c == [call EXCEPT !.round1 = { results[i] : i \in DOMAIN results }]
     IN IF failed_non_400(results) # {}
          THEN Return(FALSE, c, tick)
          ELSE /\ pc' = "c_fetch2"
               /\ call' = c
               /\ results' = << >>
               /\ UNCHANGED << cancel_success, in_flight, tick >>
  /\ UNCHANGED << config, engine_fields, mark_price, position_qty,
                  avg_entry_price, caller, place_locals, sleep_kind, book >>
  /\ UNCHANGED cancel_all_task

\* Lines 156-175: the first gather has returned; any failure that is not a
\* 400 returns False, otherwise the coroutine sleeps 0.3 s.
CancelJoin1 ==
  /\ pc = "c_round1"
  /\ in_flight = {}
  /\ LET c == [call EXCEPT !.round1 = { results[i] : i \in DOMAIN results }]
     IN IF failed_non_400(results) # {}
          THEN Return(FALSE, c, tick)
          ELSE /\ pc' = "c_fetch2"
               /\ call' = c
               /\ results' = << >>
               /\ UNCHANGED << cancel_success, in_flight, tick >>
  /\ UNCHANGED << config, engine_fields, mark_price, position_qty,
                  avg_entry_price, caller, place_locals, sleep_kind, book >>
  /\ UNCHANGED cancel_all_task

\* Lines 177-189: the verification fetch, and the second round when orders
\* with an id remain.
CancelFetch2 ==
  /\ pc = "c_fetch2"
  /\ \/ FetchFails
     \/ \E noid \in SUBSET get_open_orders(book) :
          LET remaining_orders == get_open_orders(book)
              remaining_ids == Ids(remaining_orders \ noid)
          IN IF remaining_orders = {}
               THEN Return(TRUE, Fetched("empty"), tick)
               ELSE IF remaining_ids = {}
                 THEN Return(TRUE, Fetched("orders"), tick)
                 ELSE StartRound(remaining_ids, "c_round2", Fetched("orders"))
  /\ UNCHANGED << config, engine_fields, mark_price, position_qty,
                  avg_entry_price, caller, place_locals, sleep_kind, book >>
  /\ UNCHANGED cancel_all_task

\* Lines 189-190: the second gather has returned (its results are not
\* read); the coroutine sleeps 0.2 s.
CancelJoin2 ==
  /\ pc = "c_round2"
  /\ in_flight = {}
  /\ pc' = "c_fetch3"
  /\ UNCHANGED << config, engine_fields, run_locals, cancel_locals, place_locals,
                  sleep_kind, book, tick, call >>
  /\ UNCHANGED cancel_all_task

CancelFetch3_Again ==
  /\ pc = "c_fetch3"
  /\ \/ FetchFails
     \/ IF get_open_orders(book) # {}
          THEN StartRound(Ids(get_open_orders(book)), "c_round2", Fetched("orders"))
          ELSE Return(TRUE, Fetched("empty"), tick)
  /\ UNCHANGED << config, engine_fields, mark_price, position_qty,
                  avg_entry_price, caller, place_locals, sleep_kind, book >>
  /\ UNCHANGED cancel_all_task

\* Lines 192-198: the final check.
CancelFetch3 ==
  /\ pc = "c_fetch3"
  /\ \/ FetchFails
     \/ IF get_open_orders(book) # {}
          THEN Return(FALSE, Fetched("orders"), tick)
          ELSE Return(TRUE, Fetched("empty"), tick)
  /\ UNCHANGED << config, engine_fields, mark_price, position_qty,
                  avg_entry_price, caller, place_locals, sleep_kind, book >>
  /\ UNCHANGED cancel_all_task

(***************************************************************************)
(* run() after _cancel_all_orders, _close_position and _place_quotes.      *)
(***************************************************************************)
\* run() line 368: if cancel_success.
PlaceAllowed_Always(success) == TRUE
PlaceAllowed(success) == success

\* run(): the code that follows each of the three awaits of
\* _cancel_all_orders.  TAKE PROFIT and INVENTORY STOP do not read the
\* returned value.
AfterCancel ==
  /\ pc = "c_ret"
  /\ IF caller = "tp"
       THEN /\ pc' = "close"
            /\ call' = NoCall
            /\ UNCHANGED << run_locals, cancel_locals, place_locals,
                            sleep_kind, tick >>
       ELSE IF caller = "stop"
         THEN EndTick("refresh", tick)
         ELSE IF PlaceAllowed(cancel_success)
           THEN /\ pc' = "place"
                /\ call' = NoCall
                /\ UNCHANGED << run_locals, cancel_locals, place_locals,
                                sleep_kind, tick >>
           ELSE EndTick("refresh", tick)
  /\ UNCHANGED << config, engine_fields, book >>
  /\ UNCHANGED cancel_all_task

\* _close_position (lines 82-101), then asyncio.sleep(2) of run().  The
\* create_order is sent whatever cfg.dry_run is; its exception is caught
\* and logged inside _close_position.
ClosePosition ==
  /\ pc = "close"
  /\ \E s \in { Sampled[[qty |-> position_qty, avg |-> avg_entry_price],
                          mark_price, price_tick, qty_tick] } :
     \E sent \in { [Sent("create_close") EXCEPT !.closing = s.close] } :
       IF s.dust
         THEN /\ EndTick("cooldown", tick)
              /\ UNCHANGED book
         ELSE \/ /\ Cardinality(book) < MaxOrders
                 /\ book' = Accept(book, s.close[1])
                 /\ EndTick("cooldown", sent)
              \/ /\ EndTick("cooldown", Failed(sent, "create_close"))
                 /\ UNCHANGED book
  /\ UNCHANGED << config, engine_fields >>
  /\ UNCHANGED cancel_all_task

\* _place_quotes up to its first await (lines 238-312), and what run() does
\* when it returns or raises without having awaited: the quotes are
\* computed; in dry run they are recorded and nothing is sent; otherwise
\* both create_order requests are issued.
PlaceQuotes ==
  /\ pc = "place"
  /\ \E s \in { Sampled[[qty |-> position_qty, avg |-> avg_entry_price],
                          mark_price, price_tick, qty_tick] } :
       IF s.raises
         THEN /\ LoopCatch(tick)
              /\ UNCHANGED engine_fields
         ELSE IF dry_run
           THEN /\ current_bid_price' = {s.quotes.bid_price}
                /\ current_ask_price' = {s.quotes.ask_price}
                /\ last_position_qty' = position_qty
                /\ EndTick("refresh", tick)
           ELSE /\ quotes' = s.quotes
                /\ bid_result' = "pending"
                /\ ask_result' = "pending"
                /\ pc' = "place_wait"
                /\ tick' = [tick EXCEPT !.n["create_bid"] = @ + 1,
                                        !.n["create_ask"] = @ + 1]
                /\ UNCHANGED << engine_fields, run_locals, cancel_locals,
                                sleep_kind, call >>
  /\ UNCHANGED << config, book >>
  /\ UNCHANGED cancel_all_task

\* The venue answers the bid's create_order: accepted, or failed.
BidRespond ==
  /\ pc = "place_wait"
  /\ bid_result = "pending"
  /\ \/ /\ Cardinality(book) < MaxOrders
        /\ bid_result' = "ok"
        /\ book' = Accept(book, "BUY")
        /\ UNCHANGED tick
     \/ /\ bid_result' = "error"
        /\ tick' = Failed(tick, "create_bid")
        /\ UNCHANGED book
  /\ UNCHANGED << pc, config, engine_fields, run_locals, cancel_locals, quotes,
                  ask_result, sleep_kind, call >>
  /\ UNCHANGED cancel_all_task

\* The venue answers the ask's create_order.
AskRespond ==
  /\ pc = "place_wait"
  /\ ask_result = "pending"
  /\ \/ /\ Cardinality(book) < MaxOrders
        /\ ask_result' = "ok"
        /\ book' = Accept(book, "SELL")
        /\ UNCHANGED tick
     \/ /\ ask_result' = "error"
        /\ tick' = Failed(tick, "create_ask")
        /\ UNCHANGED book
  /\ UNCHANGED << pc, config, engine_fields, run_locals, cancel_locals, quotes,
                  bid_result, sleep_kind, call >>
  /\ UNCHANGED cancel_all_task

\* Lines 314-324: the field of a side after the gather, from the field
\* before, the side's result and the price sent.
FieldAfter_Always(cur, result, price) == {price}
FieldAfter(cur, result, price) == IF result = "ok" THEN {price} ELSE cur

PlaceJoin_NoTracking ==
  /\ pc = "place_wait"
  /\ bid_result # "pending"
  /\ ask_result # "pending"
  /\ current_bid_price' = FieldAfter(current_bid_price, bid_result, quotes.bid_price)
  /\ current_ask_price' = FieldAfter(current_ask_price, ask_result, quotes.ask_price)
  /\ last_position_qty' = last_position_qty
  /\ EndTick("refresh", tick)
  /\ UNCHANGED << config, book >>
  /\ UNCHANGED cancel_all_task

\* The gather of _place_quotes has returned (lines 314-324); run() then
\* sets last_position_qty and sleeps the refresh interval.
PlaceJoin ==
  /\ pc = "place_wait"
  /\ bid_result # "pending"
  /\ ask_result # "pending"
  /\ current_bid_price' = FieldAfter(current_bid_price, bid_result, quotes.bid_price)
  /\ current_ask_price' = FieldAfter(current_ask_price, ask_result, quotes.ask_price)
  /\ last_position_qty' = position_qty
  /\ EndTick("refresh", tick)
  /\ UNCHANGED << config, book >>
  /\ UNCHANGED cancel_all_task

\* The asyncio.sleep that ends a tick is over: while True begins the next
\* iteration.
Sleep ==
  /\ pc = "sleep"
  /\ pc' = "sample"
  /\ tick' = NewTick
  /\ sleep_kind' = "none"
  /\ UNCHANGED << config, engine_fields, run_locals, cancel_locals,
                  place_locals, book, call >>
  /\ UNCHANGED cancel_all_task

(***************************************************************************)
(* The venue on its own.                                                   *)
(***************************************************************************)
\* An order is filled in part: it stays executable and get_open_orders no
\* longer lists it.
VenuePartialFill ==
  /\ \E o \in book :
       /\ o.status = "NEW"
       /\ book' = (book \ {o}) \cup { [o EXCEPT !.status = "PARTIAL_FILLED"] }
  /\ UNCHANGED << pc, config, engine_fields, run_locals, cancel_locals,
                  place_locals, sleep_kind, tick, call >>
  /\ UNCHANGED cancel_all_task

\* An order is resolved by the venue: filled, expired or rejected.
VenueResolve ==
  /\ \E o \in book : book' = book \ {o}
  /\ UNCHANGED << pc, config, engine_fields, run_locals, cancel_locals,
                  place_locals, sleep_kind, tick, call >>
  /\ UNCHANGED cancel_all_task

(***************************************************************************)
(* Specifications.                                                         *)
(***************************************************************************)
\* The steps of the engine and of the venue's answers to its requests.
Engine ==
  \/ LoadMarketInfo
  \/ GetMarkPrice
  \/ GetPosition
  \/ CancelFetch1
  \/ CancelRespond
  \/ CancelJoin1
  \/ CancelFetch2
  \/ CancelJoin2
  \/ CancelFetch3
  \/ AfterCancel
  \/ ClosePosition
  \/ PlaceQuotes
  \/ BidRespond
  \/ AskRespond
  \/ PlaceJoin
  \/ Sleep

Venue == VenuePartialFill \/ VenueResolve

Next == Engine \/ Venue

Spec == Init /\ [][Next]_vars

\* Every request is answered and every sleep ends.
FairSpec == Spec /\ WF_vars(Engine)

(***************************************************************************)
(* Process shutdown (main.py lines 40-54).  shutdown_handler is installed  *)
(* for SIGINT and SIGTERM before bot.run() starts and runs in the main     *)
(* thread, between two steps of the event loop or inside one: it creates   *)
(* the task of client.cancel_all and raises SystemExit at once.  SystemExit*)
(* is not an Exception: run() does not catch it, the event loop stops, and *)
(* asyncio.run cancels the tasks that are left before it returns.  A task  *)
(* cancelled before its first step never executes its coroutine, so        *)
(* client.cancel_all (client.py lines 158-170) sends nothing.              *)
(***************************************************************************)
Exiting == pc \in { "SystemExit", "exited" }

shutdown_handler ==
  /\ ~Exiting
  /\ cancel_all_task' = "pending"
  /\ pc' = "SystemExit"
  /\ UNCHANGED << config, engine_fields, run_locals, cancel_locals, place_locals,
                  sleep_kind, book, tick, call >>

\* asyncio.run(main()) unwinding: the pending task is cancelled unstarted.
AsyncioRunReturns ==
  /\ pc = "SystemExit"
  /\ cancel_all_task' = IF cancel_all_task = "pending" THEN "cancelled"
                        ELSE cancel_all_task
  /\ pc' = "exited"
  /\ UNCHANGED << config, engine_fields, run_locals, cancel_locals, place_locals,
                  sleep_kind, book, tick, call >>

ShutdownNext == Next \/ shutdown_handler \/ AsyncioRunReturns

ShutdownSpec == Init /\ [][ShutdownNext]_vars

(***************************************************************************)
(* The pure decisions on their own: the risk controller and the quote      *)
(* computation applied once to inputs drawn from bounded sets.  pc is the  *)
(* function applied, "inputs" before any is; the engine's variables hold   *)
(* the arguments, call holds the value returned and quotes the quotes      *)
(* computed.                                                               *)
(***************************************************************************)
\* Quantities in 1 / QtyScale: flat, shorts and longs on both sides of the
\* stop threshold 0.24, and pairs two quantity ticks apart.
FnQtys ==
  { 0, -250, -230, -1000, -1005, 1000, -2000, 2000, -2400, 2400, 2410, -2500, 2500 }
\* Mark prices in cents around the entry price 2000.00.
FnMarks == { 50, 200000, 199960, 200040, 199000, 201000, 200900, 201100, 201101 }
FnAvgs == { 0, 200000 }
\* current_bid_price and current_ask_price: unset, or a bid and an ask.
FnQuoteStates == { << {}, {} >>, << {199500}, {} >>, << {199500}, {200500} >> }
FnLastQtys == { 0, -250 }

FnInit ==
  /\ pc = "inputs"
  /\ price_tick = DefaultPriceTick
  /\ qty_tick = DefaultQtyTick
  /\ dry_run = FALSE
  /\ \E qs \in FnQuoteStates :
       /\ current_bid_price = qs[1]
       /\ current_ask_price = qs[2]
  /\ last_position_qty \in FnLastQtys
  /\ mark_price \in FnMarks
  /\ position_qty \in FnQtys
  /\ avg_entry_price \in FnAvgs
  /\ caller = "none"
  /\ in_flight = {}
  /\ results = << >>
  /\ cancel_success = FALSE
  /\ quotes = NoQuotes
  /\ bid_result = "none"
  /\ ask_result = "none"
  /\ sleep_kind = "none"
  /\ book = {}
  /\ tick = NewTick
  /\ call = NoCall
  /\ cancel_all_task = "none"

\* The function fn returns value; nothing else changes.
Returns(fn, value) ==
  /\ pc = "inputs"
  /\ pc' = fn
  /\ call' = [value |-> value]
  /\ UNCHANGED << config, engine_fields, run_locals, cancel_locals,
                  bid_result, ask_result, sleep_kind, book, tick,
                  cancel_all_task >>

FnTakeProfit ==
  /\ Returns("_should_take_profit",
             should_take_profit(position_qty, mark_price, avg_entry_price))
  /\ UNCHANGED quotes

FnStopQuoting ==
  /\ Returns("_should_stop_quoting", should_stop_quoting(position_qty, mark_price))
  /\ UNCHANGED quotes

FnUpdateQuotes ==
  /\ Returns("_should_update_quotes",
             should_update_quotes(current_bid_price, current_ask_price,
                                  last_position_qty, qty_tick, mark_price,
                                  position_qty))
  /\ UNCHANGED quotes

\* The quote computation of _place_quotes; the value is the side loss
\* protection adjusts.
FnPlaceQuotes ==
  /\ Returns("_place_quotes",
             Protects(mark_price, position_qty, avg_entry_price, price_tick))
  /\ quotes' = Quotes(mark_price, position_qty, avg_entry_price, price_tick, qty_tick)

\* _round applied to the values _place_quotes passes to it (bot.py lines
\* 249, 250 and 254) at the mark price of the state, for several ticks; the
\* value records the arguments with the result.
RoundSteps == { 1, 5, 10 }
RoundCalls == { "bid_price", "ask_price", "bid_quantity" }
RoundValue(which, mark) ==
  IF which = "bid_price"
    THEN FMul(Price(mark), FSub(FromInt(1), FDiv(FromInt(spread_bps), FromInt(BPS_DENOM))))
  ELSE IF which = "ask_price"
    THEN FMul(Price(mark), FAdd(FromInt(1), FDiv(FromInt(spread_bps), FromInt(BPS_DENOM))))
  ELSE FDiv(FromInt(order_size_usd), Price(mark))
RoundScale(which) == IF which = "bid_quantity" THEN QtyScale ELSE PriceScale
RoundCall(which, mark, step) ==
  Strict(RoundValue(which, mark), LAMBDA v :
    [value  |-> v,
     step   |-> step,
     den    |-> RoundScale(which),
     result |-> Round(v, step, RoundScale(which))])
RoundTable ==
  [ which \in RoundCalls, m \in FnMarks, step \in RoundSteps |->
      RoundCall(which, m, step) ]
FnRound ==
  \E which \in RoundCalls, step \in RoundSteps :
    /\ Returns("_round", RoundTable[which, mark_price, step])
    /\ UNCHANGED quotes

\* _close_position: the order it passes to create_order, << >> when it
\* returns at line 84 without one.
FnClosePosition ==
  /\ Returns("_close_position",
             IF QtyBelowEps(position_qty) THEN << >>
             ELSE << CloseSide(position_qty),
                     ClosePrice(position_qty, mark_price, price_tick),
                     CloseQuantity(position_qty) >>)
  /\ UNCHANGED quotes

FnNext ==
  \/ FnTakeProfit
  \/ FnStopQuoting
  \/ FnUpdateQuotes
  \/ FnPlaceQuotes
  \/ FnRound
  \/ FnClosePosition

FnSpec == FnInit /\ [][FnNext]_vars

(***************************************************************************)
(* Properties.                                                             *)
(***************************************************************************)
Creates(t) == t.n["create_bid"] + t.n["create_ask"] + t.n["create_close"]
LastFetch == call.fetches[Len(call.fetches)]

\* C1: in a tick in which _cancel_all_orders returned False, no
\* create_order request is sent, on the requote path and on the
\* take-profit path alike.
C1_NoCreateAfterFailedCancel ==
  tick.cancel_ret = "fail" => Creates(tick) = 0

\* C2: bid and ask create requests are sent only in a tick in which
\* _should_update_quotes returned True and _cancel_all_orders returned True,
\* at most one of each per tick, and at the moment they are sent the
\* successful cancel-all of that tick has already returned: so a successful
\* cancel-all lies between any two placements.
C2_QuotesOnlyAfterCancel ==
  /\ [](/\ tick.n["create_bid"] <= 1
        /\ tick.n["create_ask"] <= 1
        /\ (tick.n["create_bid"] + tick.n["create_ask"] > 0
              => tick.needs_requote = "yes" /\ tick.cancel_ret = "ok"))
  /\ [][tick'.n["create_bid"] + tick'.n["create_ask"]
          > tick.n["create_bid"] + tick.n["create_ask"]
        => /\ tick.cancel_ret = "ok"
           /\ tick.n["create_bid"] + tick.n["create_ask"] = 0]_vars

\* C2 is met where it matters: both quotes are out after a cancel-all that
\* found orders and cancelled them.
C2_Witness ==
  /\ pc = "place_wait"
  /\ tick.n["create_bid"] = 1
  /\ tick.n["create_ask"] = 1
  /\ current_bid_price # {}

\* C3: when _cancel_all_orders returns True, the last get_open_orders it
\* made returned no order.
C3_SuccessMeansLastFetchEmpty ==
  (pc = "c_ret" /\ cancel_success) => LastFetch = "empty"

\* C4: a cancel of the first round that fails with HTTP 400 counts as a
\* success and any other failure makes _cancel_all_orders return False: the
\* call returns straight after the first round exactly when such a failure
\* occurred, and when every answer was a success or a 400 and the next fetch
\* is empty it returns True.
C4_BadRequestIsSuccess ==
  pc = "c_ret" =>
    /\ "error" \in call.round1 => ~cancel_success
    /\ (call.rounds = 1 /\ Len(call.fetches) = 1) => "error" \in call.round1
    /\ ( /\ call.round1 # {}
         /\ call.round1 \subseteq {"ok", "http400"}
         /\ Len(call.fetches) = 2
         /\ call.fetches[2] = "empty" ) => cancel_success

\* Every cancel of the round answered "already resolved", the venue then
\* reports nothing, and the call returns True.
C4_Witness ==
  /\ pc = "c_ret"
  /\ call.round1 = {"http400"}
  /\ call.fetches = << "orders", "empty" >>
  /\ cancel_success

\* C5: _place_quotes reads the results only when both creates have answered;
\* a side's field becomes the new price iff that side's create succeeded and
\* is left as it was otherwise; the step cancels nothing, and no cancel is
\* in flight while the creates are.
C5_FieldsFollowResults ==
  /\ [](pc = "place_wait" => in_flight = {} /\ call = NoCall)
  /\ [][(pc = "place_wait" /\ pc' # "place_wait") =>
          /\ bid_result \in {"ok", "error"}
          /\ ask_result \in {"ok", "error"}
          /\ current_bid_price' =
               IF bid_result = "ok" THEN {quotes.bid_price} ELSE current_bid_price
          /\ current_ask_price' =
               IF ask_result = "ok" THEN {quotes.ask_price} ELSE current_ask_price
          /\ book' = book]_vars

\* The ask has answered first and succeeded, the bid then failed, and the
\* engine holds an older bid price different from the one it sent.
C5_Witness ==
  /\ pc = "place_wait"
  /\ bid_result = "error"
  /\ ask_result = "ok"
  /\ current_bid_price # {}
  /\ current_bid_price # {quotes.bid_price}
  /\ current_ask_price # {quotes.ask_price}

Resting(side) == { o \in book : o.side = side }

\* C6: with dry run off, at the end of a tick in which _cancel_all_orders
\* succeeded and the new order of a side then failed, the engine holds no
\* price for that side; stated for the ticks that leave no order of that
\* side on the venue.
C6_NoPriceForFailedSide ==
  (pc = "sleep" /\ ~dry_run /\ tick.cancel_ret = "ok") =>
    /\ ("create_bid" \in tick.faults /\ Resting("BUY") = {})
         => current_bid_price = {}
    /\ ("create_ask" \in tick.faults /\ Resting("SELL") = {})
         => current_ask_price = {}

\* The failed bid was to replace nothing: no bid rests, the engine still
\* holds the price of an earlier one.
C6_StaleBid ==
  /\ pc = "sleep"
  /\ ~dry_run
  /\ tick.cancel_ret = "ok"
  /\ "create_bid" \in tick.faults
  /\ Resting("BUY") = {}
  /\ current_bid_price # {}

\* C7: an exception that reaches the except of run() puts the tick into the
\* backoff sleep; once the loop has begun run() never ends; SAMPLE is
\* entered from a sleep only; every tick reaches its sleep and every sleep
\* is followed by SAMPLE.
C7_LoopNeverStops ==
  /\ [](tick.raised => pc = "sleep" /\ sleep_kind = "backoff")
  /\ [][pc # "load" => pc' # "exited"]_vars
  /\ [][(pc' = "sample" /\ pc \notin {"sample", "load"}) => pc = "sleep"]_vars
  /\ [](pc \notin {"load", "exited"} => <>(pc = "sleep"))
  /\ [](pc = "sleep" => <>(pc = "sample"))

\* The quote computation raised (a mark price of 0 after a successful
\* cancel-all) and the tick is in its backoff.
C7_Witness ==
  /\ pc = "sleep"
  /\ tick.raised
  /\ tick.faults = {}
  /\ tick.cancel_ret = "ok"
  /\ sleep_kind = "backoff"

\* C8: after a failed position fetch the tick works with a position of
\* (0, 0): it takes the quote-evaluation branch, closes nothing, and ends in
\* the backoff only if the quote computation raises after a successful
\* cancel-all.
C8_PositionFailsOpen ==
  "position" \in tick.faults =>
    /\ position_qty = 0
    /\ avg_entry_price = 0
    /\ tick.branch = "evaluate"
    /\ tick.needs_requote \in {"yes", "no"}
    /\ tick.n["create_close"] = 0
    /\ tick.raised => tick.cancel_ret = "ok"
    /\ pc = "sleep" => sleep_kind \in {"refresh", "backoff"}
    /\ (pc = "sleep" /\ ~tick.raised) => sleep_kind = "refresh"

\* The position fetch failed and the tick went on to place both quotes.
C8_Witness ==
  /\ "position" \in tick.faults
  /\ pc = "place_wait"
  /\ quotes.bid_quantity > 0

\* C9: a failed mark-price fetch is the tick's only request; the step
\* changes neither the engine's fields nor the venue's book and leads to the
\* backoff sleep, whose only successor is SAMPLE.
C9_MarkFailureBacksOff ==
  /\ []("mark" \in tick.faults =>
          /\ pc = "sleep"
          /\ sleep_kind = "backoff"
          /\ tick.n = [k \in RequestKinds |-> IF k = "mark" THEN 1 ELSE 0]
          /\ tick.faults = {"mark"}
          /\ tick.cancel_ret = "none"
          /\ call = NoCall
          /\ in_flight = {})
  /\ [][("mark" \in tick'.faults /\ "mark" \notin tick.faults) =>
          UNCHANGED << engine_fields, book >>]_vars
  /\ [][("mark" \in tick.faults /\ pc' # pc) => pc' = "sample"]_vars

\* The mark-price fetch failed while the engine holds both quote prices.
C9_Witness ==
  /\ "mark" \in tick.faults
  /\ current_bid_price # {}
  /\ current_ask_price # {}
  /\ book # {}

LocalFaults ==
  { "open_orders", "cancel", "create_bid", "create_ask", "create_close" }

\* C10 as stated: a tick with a failed mark-price fetch, open-orders fetch,
\* cancel or create ends in the backoff sleep.
C10_EveryFaultBacksOff ==
  (pc = "sleep" /\ tick.faults \ {"position"} # {}) => sleep_kind = "backoff"

\* C10, amended: of the venue faults only a failed mark-price fetch reaches
\* the except of run().  A tick sleeps the backoff iff an exception reached
\* it, which is a failed mark-price fetch or the quote computation raising
\* after a successful cancel-all; a failed open-orders fetch, cancel or
\* create leaves the tick to end in the take-profit cool-down on the
\* take-profit path and in the refresh sleep otherwise.
C10_OnlyMarkFaultBacksOff ==
  pc = "sleep" =>
    /\ sleep_kind = "backoff" <=> tick.raised
    /\ "mark" \in tick.faults => tick.raised
    /\ (tick.raised /\ "mark" \notin tick.faults) =>
          /\ tick.cancel_ret = "ok"
          /\ tick.needs_requote = "yes"
          /\ Creates(tick) = 0
    /\ (tick.faults \cap LocalFaults # {} /\ ~tick.raised) =>
          sleep_kind = IF tick.branch = "tp" THEN "cooldown" ELSE "refresh"

\* A create failed and the tick ends in the refresh sleep.
C10_Witness ==
  /\ pc = "sleep"
  /\ "create_ask" \in tick.faults
  /\ "open_orders" \notin tick.faults
  /\ sleep_kind = "refresh"

\* The sample of the running tick, held by the locals of run() from the
\* decision to the tick's sleep, and what the two risk functions say of it.
HasSample == tick.branch # "none" /\ pc # "sleep"
Sample == [qty |-> position_qty, avg |-> avg_entry_price]
TakeProfitHolds ==
  [ p \in SampledPositions, m \in Marks |-> should_take_profit(p.qty, m, p.avg) ]
StopHolds ==
  [ p \in SampledPositions, m \in Marks |-> should_stop_quoting(p.qty, m) ]

\* C11: a tick takes the take-profit branch exactly when
\* _should_take_profit holds of its sample, whatever _should_stop_quoting
\* says; such a tick evaluates and places no quote, sends its one closing
\* order after _cancel_all_orders has returned, ends in the cool-down with
\* exactly one closing order sent, goes from there to SAMPLE, and no step of
\* it changes current_bid_price, current_ask_price or last_position_qty.
C11_TakeProfitTick ==
  /\ [](HasSample => (tick.branch = "tp" <=> TakeProfitHolds[Sample, mark_price]))
  /\ [](tick.branch = "tp" =>
          /\ tick.needs_requote = "none"
          /\ tick.n["create_bid"] = 0
          /\ tick.n["create_ask"] = 0
          /\ caller \in {"tp", "none"}
          /\ pc = "sleep" => /\ sleep_kind = "cooldown"
                             /\ tick.n["create_close"] = 1
                             /\ tick.cancel_ret # "none")
  /\ [][tick'.n["create_close"] > tick.n["create_close"] =>
          /\ tick.branch = "tp"
          /\ tick.cancel_ret # "none"
          /\ tick.n["create_close"] = 0
          /\ pc' = "sleep"]_vars
  /\ [][(tick.branch = "tp" \/ tick'.branch = "tp") =>
          UNCHANGED engine_fields]_vars
  /\ [][(tick.branch = "tp" /\ pc = "sleep" /\ pc' # pc) => pc' = "sample"]_vars

\* A take-profit tick of the long above the inventory stop is in its
\* cool-down: the cancel-all succeeded, the closing SELL rests on the venue,
\* and the engine still holds the prices of its earlier quotes.
C11_Witness ==
  /\ pc = "sleep"
  /\ sleep_kind = "cooldown"
  /\ tick.branch = "tp"
  /\ tick.cancel_ret = "ok"
  /\ tick.n["create_close"] = 1
  /\ tick.faults = {}
  /\ \E o \in book : o.side = "SELL" /\ o.status = "NEW"
  /\ current_bid_price # {}
  /\ current_ask_price # {}

\* C12: a tick takes the inventory-stop branch exactly when
\* _should_stop_quoting holds of its sample and _should_take_profit does
\* not; such a tick calls _cancel_all_orders, evaluates no quote, sends no
\* create_order and ends in the refresh sleep, from which it goes to SAMPLE;
\* and no tick whose sample is above the stop threshold sends a bid or an
\* ask.
C12_InventoryStopTick ==
  /\ [](HasSample =>
          /\ tick.branch = "stop" <=>
                (StopHolds[Sample, mark_price] /\ ~TakeProfitHolds[Sample, mark_price])
          /\ StopHolds[Sample, mark_price] =>
                tick.n["create_bid"] = 0 /\ tick.n["create_ask"] = 0)
  /\ [](tick.branch = "stop" =>
          /\ tick.needs_requote = "none"
          /\ Creates(tick) = 0
          /\ caller \in {"stop", "none"}
          /\ ~tick.raised
          /\ pc = "sleep" => sleep_kind = "refresh" /\ tick.cancel_ret # "none")
  /\ [][(tick.branch = "stop" /\ pc = "sleep" /\ pc' # pc) => pc' = "sample"]_vars

\* An inventory-stop tick that cancelled the engine's quotes sleeps the
\* refresh interval.
C12_Witness ==
  /\ pc = "sleep"
  /\ sleep_kind = "refresh"
  /\ tick.branch = "stop"
  /\ tick.cancel_ret = "ok"
  /\ current_bid_price # {}
  /\ current_ask_price # {}
  /\ get_open_orders(book) = {}

\* C13: with cfg.dry_run set no create_order request is sent, for a quote or
\* for the closing order of a take profit, and the tick that computes quotes
\* records their prices.
C13_DryRunSendsNothing ==
  /\ [](dry_run => Creates(tick) = 0)
  /\ [][(dry_run /\ pc = "place" /\ pc' = "sleep" /\ ~tick'.raised) =>
          /\ current_bid_price' # {}
          /\ current_ask_price' # {}]_vars

\* C14: every price passed to create_order is a multiple of price_tick and
\* every quantity a multiple of qty_tick: those of the bid and the ask of
\* _place_quotes, base or loss-protected, and those of the closing order.
C14_SentOnTheGrid ==
  /\ pc = "place_wait" =>
        /\ quotes.bid_price % price_tick = 0
        /\ quotes.ask_price % price_tick = 0
        /\ quotes.bid_quantity % qty_tick = 0
        /\ quotes.ask_quantity % qty_tick = 0
  /\ tick.closing # << >> =>
        /\ tick.closing[2] % price_tick = 0
        /\ tick.closing[3] % qty_tick = 0

\* C15: get_open_orders returns exactly the orders of the symbol that are
\* not in a terminal state: every order of the book, which holds the orders
\* that can still execute, a partially filled one included, is in the
\* result, and no filled, cancelled or rejected order is.
TerminalStatuses == { "FILLED", "CANCELLED", "REJECTED" }
C15_OpenOrdersAreTheLiveOrders ==
  /\ \A o \in book : o \in get_open_orders(book)
  /\ \A o \in get_open_orders(book) : o.status \notin TerminalStatuses

\* C16: _should_take_profit is false whenever avg_entry_price is 0, and
\* otherwise true exactly when qty * (mark - avg) > 0.08 or the move
\* (mark - avg) / avg * 100 is above 0.5 for a long, below -0.5 for a short.
PnlAbove(qty, mark, avg, cents) ==
  qty * (mark - avg) > cents * QtyScale * (PriceScale \div 100)
MoveAbove(mark, avg, permille) == (mark - avg) * 1000 > permille * avg
MoveBelow(mark, avg, permille) == (mark - avg) * 1000 < -permille * avg
TakeProfitRule(qty, mark, avg) ==
  /\ avg # 0
  /\ \/ PnlAbove(qty, mark, avg, TAKE_PROFIT_CENTS)
     \/ qty > 0 /\ MoveAbove(mark, avg, FAVORABLE_MOVE_PERMILLE)
     \/ qty < 0 /\ MoveBelow(mark, avg, FAVORABLE_MOVE_PERMILLE)
C16_TakeProfitRule ==
  pc = "_should_take_profit" =>
    call.value = TakeProfitRule(position_qty, mark_price, avg_entry_price)

\* C17: _should_stop_quoting is true exactly when |qty| is strictly above
\* COLLATERAL_USD * MAX_LEVERAGE / REFERENCE_ETH_PRICE * STOP_THRESHOLD = 0.24,
\* for a long and a short alike, whatever the mark price is.
StopRule(qty) ==
  Abs(qty) * REFERENCE_ETH_PRICE * 100
    > COLLATERAL_USD * MAX_LEVERAGE * STOP_THRESHOLD_PCT * QtyScale
C17_StopThreshold ==
  pc = "_should_stop_quoting" => call.value = StopRule(position_qty)
C17_Witness ==
  /\ pc = "_should_stop_quoting"
  /\ position_qty = 2410
  /\ mark_price = 199000
  /\ call.value = TRUE

\* C18: _should_update_quotes is true if and only if current_bid_price or
\* current_ask_price is unset, or |qty - last_position_qty| > 2 * qty_tick,
\* or mark > ask + 0.6 * (ask - bid), or mark < bid - 0.6 * (ask - bid).
RequoteRule(cur_bid, cur_ask, last_qty, qtick, mark, qty) ==
  \/ IsNone(cur_bid)
  \/ IsNone(cur_ask)
  \/ Abs(qty - last_qty) > 2 * qtick
  \/ mark * 10 > Val(cur_ask) * 10 + MOVE_THRESHOLD_TENTHS * (Val(cur_ask) - Val(cur_bid))
  \/ mark * 10 < Val(cur_bid) * 10 - MOVE_THRESHOLD_TENTHS * (Val(cur_ask) - Val(cur_bid))
C18_RequoteRule ==
  pc = "_should_update_quotes" =>
    call.value = RequoteRule(current_bid_price, current_ask_price,
                             last_position_qty, qty_tick, mark_price, position_qty)

\* C19: whenever loss protection adjusts the closing side, closing the whole
\* position at the adjusted price yields a PnL within |qty| * price_tick of
\* PROFIT_TARGET = 0.05, whatever the loss at the mark price is. Amounts are
\* in 1 / (QtyScale * PriceScale) USD.
ClosingPnl(qty, price, avg) == qty * (price - avg)
ProfitTarget == (PROFIT_TARGET_CENTS * QtyScale * PriceScale) \div 100
WithinOneTick(qty, price, avg, ptick) ==
  Abs(ClosingPnl(qty, price, avg) - ProfitTarget) <= Abs(qty) * ptick
C19_ProtectedCloseHitsTarget ==
  pc = "_place_quotes" =>
    /\ call.value = "bid" =>
          WithinOneTick(position_qty, quotes.bid_price, avg_entry_price, price_tick)
    /\ call.value = "ask" =>
          WithinOneTick(position_qty, quotes.ask_price, avg_entry_price, price_tick)
C19_Witness ==
  /\ pc = "_place_quotes"
  /\ call.value = "bid"
  /\ position_qty = -1000
  /\ avg_entry_price = 200000
  /\ mark_price = 201100
  /\ quotes.bid_price = 199950

\* C20: when loss protection adjusts nothing, the quotes of _place_quotes
\* are bid = round(mark * (1 - spread_bps / 10000), price_tick),
\* ask = round(mark * (1 + spread_bps / 10000), price_tick) and, on both
\* sides, the quantity round(order_size_usd / ((bid + ask) / 2), qty_tick),
\* round being the truncation to a multiple of the tick.
RoundDown(num, den, step) == (num \div (den * step)) * step
BaseBid(mark, ptick) == RoundDown(mark * (BPS_DENOM - spread_bps), BPS_DENOM, ptick)
BaseAsk(mark, ptick) == RoundDown(mark * (BPS_DENOM + spread_bps), BPS_DENOM, ptick)
BaseSize(bid, ask, qtick) ==
  RoundDown(order_size_usd * QtyScale * PriceScale * 2, bid + ask, qtick)
BaseQuotes(mark, ptick, qtick) ==
  [bid_price    |-> BaseBid(mark, ptick),
   bid_quantity |-> BaseSize(BaseBid(mark, ptick), BaseAsk(mark, ptick), qtick),
   ask_price    |-> BaseAsk(mark, ptick),
   ask_quantity |-> BaseSize(BaseBid(mark, ptick), BaseAsk(mark, ptick), qtick)]
C20_BaseQuotes ==
  pc = "_place_quotes" /\ call.value = "none" =>
    quotes = BaseQuotes(mark_price, price_tick, qty_tick)

\* C21: for a value v > 0 and a tick t > 0, _round(v, t) is an integer
\* multiple of t and _round(v, t) <= v < _round(v, t) + t.
C21_RoundsDownToTick ==
  pc = "_round" /\ FGreater(call.value.value, Zero) =>
    /\ call.value.result % call.value.step = 0
    /\ ~FLess(call.value.value, FromDec(call.value.result, call.value.den))
    /\ FLess(call.value.value,
             FromDec(call.value.result + call.value.step, call.value.den))
C21_Witness ==
  /\ pc = "_round"
  /\ mark_price = 200000
  /\ call.value.step = 1
  /\ call.value.den = PriceScale
  /\ call.value.result = 200199

C23_OneOrderPerSide ==
  /\ Cardinality({ o \in book : o.side = "BUY" }) <= 1
  /\ Cardinality({ o \in book : o.side = "SELL" }) <= 1

\* C24: if from some state on every venue call succeeds, the mark price and
\* the position stay constant and neither take-profit nor inventory stop
\* triggers, then eventually a bid and an ask of the engine rest on the
\* venue.  Stated for the constant sample of a mark of 2000.00 and a flat
\* position, with dry run off: from some point on no request fails, no
\* cancel-all fails, the venue fills and expires nothing and every sample is
\* that one; then both sides rest again and again.
CalmStep ==
  /\ ~(VenuePartialFill \/ VenueResolve)
  /\ tick'.faults = {}
  /\ ~tick'.raised
  /\ tick'.cancel_ret # "fail"
  /\ tick'.branch \notin { "tp", "stop" }
  /\ pc = "sample" => mark_price' = 2000 * PriceScale
  /\ pc = "position" => position_qty' = 0 /\ avg_entry_price' = 0
BothRest == Resting("BUY") # {} /\ Resting("SELL") # {}
C24_QuotesComeBack ==
  (<>[](pc # "exited" /\ ~dry_run) /\ <>[][CalmStep]_vars) => []<>BothRest

\* C25: _cancel_all_orders always returns a boolean and never raises into
\* run(); when the first fetch finds no open order it returns True without
\* a cancel request; otherwise it starts at most two cancel rounds and
\* fetches the open orders at most three times, whatever the venue answers.
CancelPcs == { "c_fetch1", "c_round1", "c_fetch2", "c_round2", "c_fetch3" }
CancelBounded == Len(call.fetches) <= 3 /\ call.rounds <= 2
CancelReturned ==
  pc = "c_ret" =>
    /\ cancel_success \in BOOLEAN
    /\ ~tick.raised
    /\ tick.cancel_ret = (IF cancel_success THEN "ok" ELSE "fail")
    /\ call.fetches = << "empty" >> => cancel_success /\ call.rounds = 0
C25_CancelAllBounded ==
  /\ [](CancelBounded /\ CancelReturned)
  /\ [][(pc \in CancelPcs) => (pc' \in CancelPcs \/ pc' = "c_ret")]_vars
C25_Witness ==
  /\ pc = "c_ret"
  /\ Len(call.fetches) = 3
  /\ call.rounds = 2
  /\ ~cancel_success

\* C26: loss protection changes the quotes only when qty * (mark - avg) < 0,
\* |qty| > 0.0001 and the base quote of the closing side would close at a
\* loss (short: base bid > avg; long: base ask < avg).  Then the closing
\* side is priced at avg -/+ 0.05 / |qty| (to the tick) with the quantity
\* |qty|, the other side is recomputed from the mark at twice the spread
\* and keeps the base quantity; in every other case both quotes are the
\* base quotes with the base quantity.
InLoss(qty, mark, avg) == qty * (mark - avg) < 0 /\ Abs(qty) * 10000 > QTY_EPS_E4 * QtyScale
ClosesAtLoss(qty, mark, avg, ptick) ==
  IF qty < 0 THEN BidAt(mark, spread_bps, ptick) > avg
             ELSE AskAt(mark, spread_bps, ptick) < avg
ProtectedSide(qty) == IF qty < 0 THEN "bid" ELSE "ask"
QuotesAsProtected(q, side, closing_qty, mark, qty, avg, ptick, qtick) ==
  LET base == BaseQuantity(BidAt(mark, spread_bps, ptick),
                           AskAt(mark, spread_bps, ptick), qtick)
  IN IF side = "bid"
       THEN /\ q.bid_price % ptick = 0
            /\ WithinOneTick(qty, q.bid_price, avg, ptick)
            /\ q.bid_quantity = closing_qty
            /\ q.ask_price = AskAt(mark, 2 * spread_bps, ptick)
            /\ q.ask_quantity = base
     ELSE IF side = "ask"
       THEN /\ q.ask_price % ptick = 0
            /\ WithinOneTick(qty, q.ask_price, avg, ptick)
            /\ q.ask_quantity = closing_qty
            /\ q.bid_price = BidAt(mark, 2 * spread_bps, ptick)
            /\ q.bid_quantity = base
     ELSE q = [bid_price |-> BidAt(mark, spread_bps, ptick), bid_quantity |-> base,
               ask_price |-> AskAt(mark, spread_bps, ptick), ask_quantity |-> base]
C26_LossProtectionRule ==
  pc = "_place_quotes" =>
    LET side == IF /\ InLoss(position_qty, mark_price, avg_entry_price)
                   /\ ClosesAtLoss(position_qty, mark_price, avg_entry_price, price_tick)
                  THEN ProtectedSide(position_qty) ELSE "none"
    IN /\ call.value = side
       /\ QuotesAsProtected(quotes, side, Abs(position_qty), mark_price,
                            position_qty, avg_entry_price, price_tick, qty_tick)

\* C26 as the code has it: the rule above applies when the entry price is
\* known (avg > 0); a position without an entry price gets the base quotes;
\* the closing quantity is |qty| truncated to a multiple of qty_tick.
C26_LossProtectionRuleKnownEntry ==
  pc = "_place_quotes" =>
    LET side == IF /\ avg_entry_price > 0
                   /\ InLoss(position_qty, mark_price, avg_entry_price)
                   /\ ClosesAtLoss(position_qty, mark_price, avg_entry_price, price_tick)
                  THEN ProtectedSide(position_qty) ELSE "none"
    IN /\ call.value = side
       /\ QuotesAsProtected(quotes, side, (Abs(position_qty) \div qty_tick) * qty_tick,
                            mark_price, position_qty, avg_entry_price, price_tick,
                            qty_tick)
C26_Witness ==
  /\ pc = "_place_quotes"
  /\ position_qty = -1005
  /\ avg_entry_price = 200000
  /\ mark_price = 201000
  /\ call.value = "bid"
  /\ quotes.bid_quantity = 1000

\* C27: every bid _place_quotes sends is strictly below the mark price of
\* the tick and every ask strictly above it, with and without loss
\* protection; the closing order alone is priced through the mark, a SELL
\* at round(mark * 0.999) for a long and a BUY at round(mark * 1.001) for a
\* short.
C27_QuotesStraddleMark ==
  /\ pc = "_place_quotes" =>
        quotes.bid_price < mark_price /\ mark_price < quotes.ask_price
  /\ pc = "_close_position" /\ call.value # << >> =>
        /\ call.value[1] = (IF position_qty > 0 THEN "SELL" ELSE "BUY")
        /\ call.value[2] =
             RoundDown(mark_price * (IF position_qty > 0 THEN CLOSE_SELL_PERMILLE
                                                         ELSE CLOSE_BUY_PERMILLE),
                       1000, price_tick)

\* C28: last_position_qty changes only at the end of an EVALUATE_QUOTES
\* tick in which _should_update_quotes was true, _cancel_all_orders returned
\* True and nothing was raised, and there it becomes the position_qty
\* sampled in that tick; every other step, and so every take-profit,
\* inventory-stop, no-requote, failed-cancel and raising tick, leaves it.
Requoted(t) ==
  /\ t.branch = "evaluate"
  /\ t.needs_requote = "yes"
  /\ t.cancel_ret = "ok"
  /\ ~t.raised
C28_LastPositionTracking ==
  [][IF pc # "sleep" /\ pc' = "sleep" /\ Requoted(tick')
       THEN last_position_qty' = position_qty
       ELSE last_position_qty' = last_position_qty]_vars
C28_Witness ==
  /\ pc = "sleep"
  /\ Requoted(tick)
  /\ last_position_qty = -250


\* C29: a cancel round of _cancel_all_orders is left, to the verification
\* fetch or to a return, only when every cancel request it issued has been
\* answered; while the round runs the requests issued stay the same set,
\* answered or still in flight, whatever the answers were, so a failed cancel
\* takes no other request away; and the value returned is a function of the
\* answers fetched, of the set of answers gathered in the first round and of
\* the rounds the fetched rows started, whatever the order of the answers.
RoundPcs == { "c_round1", "c_round2" }
Requests == in_flight \cup DOMAIN results
ReturnValue(c) ==
  LET n == Len(c.fetches)
  IN IF c.fetches[n] = "fault" THEN FALSE
     ELSE IF n = 1 THEN c.fetches[1] = "empty"
     ELSE IF n = 2 THEN c.rounds = 1 /\ "error" \notin c.round1
     ELSE c.fetches[3] = "empty"
C29_GatherJoinsEveryCancel ==
  [][/\ (pc \in RoundPcs /\ pc' # pc) => in_flight = {}
     /\ (pc = "c_round1" /\ pc' = pc) => Requests' = Requests
     /\ (pc = "c_round2" /\ pc' = pc) => in_flight' \subseteq in_flight
     /\ (pc \in CancelPcs /\ pc' = "c_ret") =>
          cancel_success' = ReturnValue(call')]_vars
C29_Witness ==
  /\ pc = "c_round1"
  /\ in_flight = {}
  /\ Cardinality(DOMAIN results) = 2
  /\ \E i \in DOMAIN results : results[i] = "error"
  /\ \E i \in DOMAIN results : results[i] = "ok"

====
